---- MODULE Spec2Model ----
(***************************************************************************)
(* State-machine model of the SoFIFA scrapers:                             *)
(*   - SoFIFAScraper      (Scrapping/Scripts/sofifa_scraper.py)            *)
(*   - PlayerURLScraper   (Scrapping/Scripts/scrape_player_urls.py)        *)
(*   - SoFIFAClubScraper  (Scrapping/Scripts/Clubs/soFIFAClubs_scraper.py) *)
(*   - ClubURLScraper     (Scrapping/Scripts/Clubs/soFIFAClubs_url_scraper.py) *)
(* Each behaviour runs one of the programs (variable prog).  The browser   *)
(* and the site are the environment: every fetch draws its outcome with \E.*)
(* A CSV file is [exists, rows]; a row is a sequence of cells (strings).   *)
(* Python's None is <<>> and a value x that may be None is <<x>>.          *)
(***************************************************************************)
EXTENDS Integers, Sequences, FiniteSets, TLC

\* ------------------------------------------------------------- bounds
NumUrls == 3        \* addresses in the list a detail run loads
MaxWrites == 4      \* direct save_player_to_csv calls in the sink scenario
MaxInstances == 2   \* scraper instances created against the same output file
MaxLimit == 1       \* largest max_players / limit argument tried
MaxPages == 3       \* listing pages the site serves in player URL discovery
MaxFailures == 4    \* failed fetches the site produces for one listing page
MaxTimeouts == 3    \* navigation timeouts in one club URL discovery run
MaxFaults == 3      \* failed or blank club pages the site gives in one club detail run

\* ------------------------------------------------- program constants
player_max_retries == 5
purl_max_retries == 3
page_size == 60
max_offset == 660

None == <<>>
Some(x) == <<x>>

Range(s) == {s[i] : i \in 1..Len(s)}

NoFile == [exists |-> FALSE, rows |-> <<>>]

\* ------------------------------------------------------ the addresses
PlayerUrlNames == <<"p1", "p2", "p3", "p4", "p5", "p6">>
ClubUrlNames == <<"c1", "c2", "c3", "c4", "c5", "c6", "c7", "c8", "c9", "c10",
                   "c11", "c12", "c13", "c14">>

\* ------------------------------------------------ csv.DictWriter
\* writerow raises ValueError when the dict has a key outside fieldnames
\* (extrasaction defaults to 'raise'); otherwise one cell per fieldname,
\* restval '' for a missing key.
DictWriterRaises(fieldnames, rowdict) ==
    ~(DOMAIN rowdict \subseteq Range(fieldnames))

DictWriterRow(fieldnames, rowdict) ==
    [i \in 1..Len(fieldnames) |->
        IF fieldnames[i] \in DOMAIN rowdict THEN rowdict[fieldnames[i]] ELSE ""]

\* ------------------------------------------------ SoFIFAScraper
priority_cols ==
    << "player_id", "version", "name", "full_name", "description", "image",
       "height_cm", "weight_kg", "dob", "positions", "overall_rating", "potential",
       "value", "wage", "preferred_foot", "weak_foot", "skill_moves",
       "international_reputation", "body_type", "real_face",
       "release_clause", "specialities", "club_id", "club_name", "club_league_id",
       "club_league_name", "club_logo", "club_rating", "club_position",
       "club_kit_number", "club_joined", "club_contract_valid_until",
       "country_id", "country_name", "country_league_id", "country_league_name",
       "country_flag", "country_rating", "country_position", "country_kit_number",
       "attacking_crossing", "attacking_finishing", "attacking_heading_accuracy",
       "attacking_short_passing", "attacking_volleys",
       "skill_dribbling", "skill_curve", "skill_fk_accuracy", "skill_long_passing",
       "skill_ball_control",
       "movement_acceleration", "movement_sprint_speed", "movement_agility",
       "movement_reactions", "movement_balance",
       "power_shot_power", "power_jumping", "power_stamina", "power_strength",
       "power_long_shots",
       "mentality_aggression", "mentality_interceptions", "mentality_att_positioning",
       "mentality_vision", "mentality_penalties", "mentality_composure",
       "defending_defensive_awareness", "defending_standing_tackle", "defending_sliding_tackle",
       "goalkeeping_gk_diving", "goalkeeping_gk_handling", "goalkeeping_gk_kicking",
       "goalkeeping_gk_positioning", "goalkeeping_gk_reflexes",
       "play_styles", "url" >>

\* Keys a player page can yield beyond priority_cols (any stat label of the
\* page becomes <section>_<label>), in ascending lexicographic order.
OtherKeysSorted ==
    << "defending_marking", "defending_marking_awareness",
       "goalkeeping_gk_speed", "mentality_positioning" >>

\* sorted(): the keys of ks that are in the universe of non-priority keys,
\* ascending.
SortedKeys(ks) == SelectSeq(OtherKeysSorted, LAMBDA k : k \in ks)

get_column_order_OthersFirst(dict) ==
    LET all_keys == DOMAIN dict
        other_cols == SortedKeys({col \in all_keys : col \notin Range(priority_cols)})
    IN  other_cols \o SelectSeq(priority_cols, LAMBDA col : col \in all_keys)

get_column_order(dict) ==
    LET all_keys == DOMAIN dict
        other_cols == SortedKeys({col \in all_keys : col \notin Range(priority_cols)})
    IN  SelectSeq(priority_cols, LAMBDA col : col \in all_keys) \o other_cols

\* Keys PlayerScraper.scrape_player_data sets on every page.
BaseKeys == {"player_id", "version", "name", "description", "positions", "url"}

\* Key sets of the pages the site serves: a club player, and a national-team
\* player without a club section whose page has a stat label outside
\* priority_cols.
KeySets ==
    { BaseKeys \cup {"club_name"},
      BaseKeys \cup {"country_position", "defending_marking"} }

\* The dict scrape_player_data returns for url: every value is a string;
\* name is '' when the profile header is not found.
PlayerRecord(url, keys, named) ==
    [k \in keys |-> IF k = "name" THEN (IF named THEN url ELSE "") ELSE url]

PlayerPages(url) ==
    {PlayerRecord(url, ks, named) : ks \in KeySets, named \in BOOLEAN}

UsablePages(url) == {s \in PlayerPages(url) : s["name"] # ""}

VARIABLES
    prog,            \* which program this behaviour runs
    pc,              \* position in the program
    \* SoFIFAScraper
    player_urls, player_urls_file, max_players, player_stats, columns, csv_initialized,
    output_file, idx, retries, success,
    \* observations of the SoFIFAScraper run
    fetches, sleeps, hist, attempted, succeeded, failed, instances, calls,
    \* SoFIFAClubScraper
    club_urls, urls_file, club_limit, results, club_output_file, club_idx,
    \* observations of the SoFIFAClubScraper runs
    club_attempted, club_instances, club_calls, club_faults,
    \* PlayerURLScraper
    offset, all_player_urls, has_next, purl_retries, purl_success, purl_file,
    \* observations of the PlayerURLScraper run
    purl_fetches, purl_last, purl_fails, processed, saves,
    \* ClubURLScraper
    club_offset, all_club_urls, club_urls_file, loaded,
    \* observations of the ClubURLScraper run
    timeouts, handled, last_gotos, last_sleeps,
    \* a direct call of SoFIFAScraper._get_column_order: argument and result
    stats_dict, column_order

playerVars == << player_urls, player_urls_file, max_players, player_stats, columns, csv_initialized,
                 output_file, idx, retries, success,
                 fetches, sleeps, hist, attempted, succeeded, failed, instances, calls >>

clubVars == << club_urls, urls_file, club_limit, results, club_output_file, club_idx,
               club_attempted, club_instances, club_calls, club_faults >>

purlVars == << offset, all_player_urls, has_next, purl_retries, purl_success,
               purl_file, purl_fetches, purl_last, purl_fails, processed, saves >>

curlVars == << club_offset, all_club_urls, club_urls_file, loaded,
               timeouts, handled, last_gotos, last_sleeps >>

orderVars == << stats_dict, column_order >>

vars == << prog, pc, playerVars, clubVars, purlVars, curlVars, orderVars >>

\* ------------------------------------------ save_player_to_csv
save_player_to_csv_AlwaysAppend(stats) ==
    LET file_exists == output_file.exists /\ csv_initialized
        cols == IF columns = None THEN get_column_order(stats) ELSE columns[1]
        opened == IF ~output_file.exists THEN <<>> ELSE output_file.rows
        headed == IF ~file_exists THEN Append(opened, cols) ELSE opened
        raised == DictWriterRaises(cols, stats)
    IN  [ columns |-> Some(cols),
          csv_initialized |-> TRUE,
          output_file |-> [exists |-> TRUE,
                           rows |-> IF raised THEN headed
                                    ELSE Append(headed, DictWriterRow(cols, stats))],
          raised |-> raised ]

\* The effect of one call on the instance and the file; raised tells
\* whether writer.writerow raised (after the header, if any, was written).
save_player_to_csv(stats) ==
    LET file_exists == output_file.exists /\ csv_initialized
        cols == IF columns = None THEN get_column_order(stats) ELSE columns[1]
        mode == IF ~csv_initialized THEN "w" ELSE "a"
        opened == IF mode = "w" \/ ~output_file.exists THEN <<>> ELSE output_file.rows
        headed == IF ~file_exists THEN Append(opened, cols) ELSE opened
        raised == DictWriterRaises(cols, stats)
    IN  [ columns |-> Some(cols),
          csv_initialized |-> TRUE,
          output_file |-> [exists |-> TRUE,
                           rows |-> IF raised THEN headed
                                    ELSE Append(headed, DictWriterRow(cols, stats))],
          raised |-> raised ]

\* self.player_urls[:max_players] if max_players else self.player_urls
\* (0 is falsy, like None)
Slice(list, limit) ==
    IF limit = None \/ limit[1] = 0 THEN list
    ELSE SubSeq(list, 1, IF limit[1] < Len(list) THEN limit[1] ELSE Len(list))

urls_to_scrape == Slice(player_urls, max_players)

\* A file an earlier run left behind.
LeftoverFile ==
    LET old == PlayerRecord("p0", BaseKeys \cup {"club_name"}, TRUE)
        cols == get_column_order(old)
    IN  [exists |-> TRUE, rows |-> <<cols, DictWriterRow(cols, old)>>]

Limits == {None} \cup {Some(n) : n \in 0..MaxLimit}

Kinds == {"error", "challenge", "no_data", "usable"}

NoHist == [k \in Kinds |-> 0]

\* SoFIFAScraper.__init__
NewScraperFields ==
    /\ player_stats' = <<>>
    /\ columns' = None
    /\ csv_initialized' = FALSE

InitPlayerIdle ==
    /\ player_urls = <<>>
    /\ player_urls_file = NoFile
    /\ max_players = None
    /\ player_stats = <<>>
    /\ columns = None
    /\ csv_initialized = FALSE
    /\ output_file = NoFile
    /\ idx = 1
    /\ retries = 0
    /\ success = FALSE
    /\ fetches = 0
    /\ sleeps = 0
    /\ hist = NoHist
    /\ attempted = {}
    /\ succeeded = <<>>
    /\ failed = {}
    /\ instances = 1
    /\ calls = <<>>

\* The rows a loader keeps: the first cell of every non-empty row after the
\* header row.
LoadedUrls(file) ==
    LET body == SelectSeq(Tail(file.rows), LAMBDA row : row # <<>>)
    IN  [i \in 1..Len(body) |-> body[i][1]]

\* main of sofifa_scraper.py: a new scraper, then load_player_urls and
\* scrape_player_stats(max_players).  player_urls.csv is missing or is the
\* file discovery wrote; the output file may exist already.
InitPlayerStats ==
    /\ prog = "player_stats"
    /\ pc = "load"
    /\ player_urls = <<>>
    /\ player_urls_file \in
          {NoFile, [exists |-> TRUE,
                    rows |-> << <<"player_url">> >>
                             \o [i \in 1..NumUrls |-> <<PlayerUrlNames[i]>>]]}
    /\ max_players \in Limits
    /\ player_stats = <<>>
    /\ columns = None
    /\ csv_initialized = FALSE
    /\ output_file \in {NoFile, LeftoverFile}
    /\ idx = 1
    /\ retries = 0
    /\ success = FALSE
    /\ fetches = 0
    /\ sleeps = 0
    /\ hist = NoHist
    /\ attempted = {}
    /\ succeeded = <<>>
    /\ failed = {}
    /\ instances = 1
    /\ calls = <<>>

\* Sink scenario: save_player_to_csv called directly on a fresh output file.
InitPlayerSink ==
    /\ prog = "player_sink"
    /\ pc = "sink"
    /\ InitPlayerIdle

PlayerLoad_IgnoreMissing ==
    /\ prog = "player_stats" /\ pc = "load"
    /\ IF player_urls_file.exists
       THEN player_urls' = LoadedUrls(player_urls_file)
       ELSE player_urls' = <<"p1">>
    /\ pc' = "for"
    /\ UNCHANGED << orderVars, prog, player_urls_file, max_players, player_stats, columns,
                     csv_initialized, output_file, idx, retries, success,
                     fetches, sleeps, hist, attempted, succeeded, failed,
                     instances, calls, clubVars, purlVars, curlVars >>

\* main: scraper.load_player_urls().  open() raises FileNotFoundError when
\* the file is missing and nothing catches it: the program ends there.
PlayerLoad ==
    /\ prog = "player_stats" /\ pc = "load"
    /\ IF player_urls_file.exists
       THEN /\ player_urls' = LoadedUrls(player_urls_file)
            /\ pc' = "for"
       ELSE /\ pc' = "aborted"
            /\ UNCHANGED player_urls
    /\ UNCHANGED << orderVars, prog, player_urls_file, max_players, player_stats, columns,
                     csv_initialized, output_file, idx, retries, success,
                     fetches, sleeps, hist, attempted, succeeded, failed,
                     instances, calls, clubVars, purlVars, curlVars >>

PlayerForNext_KeepRetries ==
    /\ prog = "player_stats" /\ pc = "for"
    /\ idx <= Len(urls_to_scrape)
    /\ retries' = retries
    /\ success' = FALSE
    /\ fetches' = 0
    /\ sleeps' = 0
    /\ hist' = NoHist
    /\ pc' = "while"
    /\ UNCHANGED << orderVars, prog, player_urls, player_urls_file, max_players, player_stats, columns,
                     csv_initialized, output_file, idx, attempted, succeeded,
                     failed, instances, calls, clubVars, purlVars, curlVars >>

\* for idx, url in enumerate(urls_to_scrape, 1): retries = 0; success = False
PlayerForNext ==
    /\ prog = "player_stats" /\ pc = "for"
    /\ idx <= Len(urls_to_scrape)
    /\ retries' = 0
    /\ success' = FALSE
    /\ fetches' = 0
    /\ sleeps' = 0
    /\ hist' = NoHist
    /\ pc' = "while"
    /\ UNCHANGED << orderVars, prog, player_urls, player_urls_file, max_players, player_stats, columns,
                     csv_initialized, output_file, idx, attempted, succeeded,
                     failed, instances, calls, clubVars, purlVars, curlVars >>

\* the list is exhausted: browser.close()
PlayerForEnd ==
    /\ prog = "player_stats" /\ pc = "for"
    /\ idx > Len(urls_to_scrape)
    /\ pc' = "done"
    /\ UNCHANGED << orderVars, prog, playerVars, clubVars, purlVars, curlVars >>

WhileCond_OffByOne == retries <= player_max_retries /\ ~success

\* while retries < max_retries and not success
WhileCond == retries < player_max_retries /\ ~success

\* How many more passes the while loop admits from here when none of them
\* succeeds.  The loop has this one budget: every kind of failed attempt
\* (exception, challenge page, no data) adds one to the same retries.
AttemptsAllowed == IF success THEN 0 ELSE player_max_retries - retries

\* One pass through the body of `while retries < max_retries and not success`.
\* out is what the site answers: goto raises ("error"), a challenge page
\* ("challenge"), or a page from which scrape_player_data returns out.stats.
PlayerAttempt(out) ==
    LET url == urls_to_scrape[idx]
        saved == save_player_to_csv(out.stats)
        usable == out.kind = "page" /\ out.stats["name"] # ""
        kind == IF out.kind = "page"
                THEN (IF usable THEN "usable" ELSE "no_data")
                ELSE out.kind
    IN  /\ prog = "player_stats" /\ pc = "while"
        /\ WhileCond
        /\ sleeps' = IF retries > 0 THEN sleeps + 1 ELSE sleeps
        /\ fetches' = fetches + 1
        /\ attempted' = attempted \cup {idx}
        /\ hist' = [hist EXCEPT ![kind] = @ + 1]
        /\ IF usable
           THEN /\ player_stats' = Append(player_stats, out.stats)
                /\ columns' = saved.columns
                /\ csv_initialized' = saved.csv_initialized
                /\ output_file' = saved.output_file
                /\ IF saved.raised
                   THEN /\ retries' = retries + 1
                        /\ UNCHANGED << success, succeeded >>
                   ELSE /\ success' = TRUE
                        /\ succeeded' = Append(succeeded, [idx |-> idx, stats |-> out.stats])
                        /\ UNCHANGED retries
                /\ calls' = Append(calls, [stats |-> out.stats, raised |-> saved.raised,
                                           instance |-> instances])
           ELSE /\ retries' = retries + 1
                /\ UNCHANGED << player_stats, columns, csv_initialized, output_file,
                                 success, succeeded, calls >>
        /\ UNCHANGED << orderVars, prog, pc, player_urls, player_urls_file, max_players, idx, failed, instances,
                         clubVars, purlVars, curlVars >>

PlayerOutcomes(url) ==
    {[kind |-> "error"], [kind |-> "challenge"]}
    \cup {[kind |-> "page", stats |-> s] : s \in PlayerPages(url)}

PlayerFetch ==
    /\ prog = "player_stats" /\ pc = "while"
    /\ \E out \in PlayerOutcomes(urls_to_scrape[idx]) : PlayerAttempt(out)

PlayerWhileExit_Break ==
    /\ prog = "player_stats" /\ pc = "while"
    /\ ~WhileCond
    /\ failed' = IF ~success THEN failed \cup {idx} ELSE failed
    /\ idx' = idx + 1
    /\ pc' = IF ~success THEN "done" ELSE "for"
    /\ UNCHANGED << orderVars, prog, player_urls, player_urls_file, max_players, player_stats, columns,
                     csv_initialized, output_file, retries, success, fetches,
                     sleeps, hist, attempted, succeeded, instances, calls,
                     clubVars, purlVars, curlVars >>

\* the while condition is false: `if not success: print("Failed ...")`,
\* then the next address
PlayerWhileExit ==
    /\ prog = "player_stats" /\ pc = "while"
    /\ ~WhileCond
    /\ failed' = IF ~success THEN failed \cup {idx} ELSE failed
    /\ idx' = idx + 1
    /\ pc' = "for"
    /\ UNCHANGED << orderVars, prog, player_urls, player_urls_file, max_players, player_stats, columns,
                     csv_initialized, output_file, retries, success, fetches,
                     sleeps, hist, attempted, succeeded, instances, calls, clubVars, purlVars, curlVars >>

\* Sink scenario: one direct call of save_player_to_csv; the n-th call passes
\* a usable record of the n-th address.
SinkWrite ==
    /\ prog = "player_sink" /\ pc = "sink"
    /\ Len(calls) < MaxWrites
    /\ \E stats \in UsablePages(PlayerUrlNames[Len(calls) + 1]) :
          LET saved == save_player_to_csv(stats)
          IN  /\ columns' = saved.columns
              /\ csv_initialized' = saved.csv_initialized
              /\ output_file' = saved.output_file
              /\ calls' = Append(calls, [stats |-> stats, raised |-> saved.raised,
                                         instance |-> instances])
    /\ UNCHANGED << orderVars, prog, pc, player_urls, player_urls_file, max_players, player_stats, idx, retries,
                     success, fetches, sleeps, hist, attempted, succeeded, failed,
                     instances, clubVars, purlVars, curlVars >>

\* Sink scenario: the process is started again: SoFIFAScraper() on the same
\* output file.
SinkRestart ==
    /\ prog = "player_sink" /\ pc = "sink"
    /\ instances < MaxInstances
    /\ NewScraperFields
    /\ instances' = instances + 1
    /\ UNCHANGED << orderVars, prog, pc, player_urls, player_urls_file, max_players, output_file, idx, retries,
                     success, fetches, sleeps, hist, attempted, succeeded, failed,
                     calls, clubVars, purlVars, curlVars >>

\* ------------------------------------------------ SoFIFAClubScraper
fieldnames ==
    << "club_id", "name", "league", "league_id", "country", "rating",
       "attack_rating", "midfield_rating", "defense_rating", "stadium",
       "manager", "manager_id", "manager_url", "club_worth",
       "starting_xi_avg_age", "whole_team_avg_age", "rival_team",
       "players_count", "top_players", "club_logo", "country_flag", "url" >>

\* Keys of the dict ClubScraper.scrape_club_data returns: url and every key
\* the page script sets (all of them unconditionally).
ClubKeys ==
    { "url", "club_id", "name", "club_logo", "league", "league_id", "country",
      "country_flag", "rating", "attack_rating", "midfield_rating",
      "defense_rating", "stadium", "manager", "manager_id", "manager_url",
      "club_worth", "starting_xi_avg_age", "whole_team_avg_age", "rival_team",
      "players_count", "top_players" }

\* The dict for url: on a club page every field is found; on any other page
\* (a challenge interstitial, an error page) the selectors find nothing and
\* every field but url is ''.
ClubRecord(url, real) ==
    [k \in ClubKeys |-> IF k \in {"url", "club_id"} \/ real THEN url ELSE ""]

to_scrape == Slice(club_urls, club_limit)

save_to_csv_HeaderPerInstance(data) ==
    LET file_exists == club_output_file.exists /\ results # <<>>
        opened == IF club_output_file.exists THEN club_output_file.rows ELSE <<>>
        headed == IF ~file_exists THEN Append(opened, fieldnames) ELSE opened
        raised == DictWriterRaises(fieldnames, data)
    IN  [ file |-> [exists |-> TRUE,
                    rows |-> IF raised THEN headed
                             ELSE Append(headed, DictWriterRow(fieldnames, data))],
          raised |-> raised ]

save_to_csv_Prepend(data) ==
    LET file_exists == club_output_file.exists
        opened == IF file_exists THEN club_output_file.rows ELSE <<>>
        headed == IF ~file_exists THEN Append(opened, fieldnames) ELSE opened
        raised == DictWriterRaises(fieldnames, data)
    IN  [ file |-> [exists |-> TRUE,
                    rows |-> IF raised THEN headed
                             ELSE << Head(headed), DictWriterRow(fieldnames, data) >>
                                  \o Tail(headed)],
          raised |-> raised ]

\* SoFIFAClubScraper.save_to_csv: the file after the call, and whether
\* writer.writerow raised.
save_to_csv(data) ==
    LET file_exists == club_output_file.exists
        opened == IF file_exists THEN club_output_file.rows ELSE <<>>
        headed == IF ~file_exists THEN Append(opened, fieldnames) ELSE opened
        raised == DictWriterRaises(fieldnames, data)
    IN  [ file |-> [exists |-> TRUE,
                    rows |-> IF raised THEN headed
                             ELSE Append(headed, DictWriterRow(fieldnames, data))],
          raised |-> raised ]

InitClubIdle ==
    /\ club_urls = <<>>
    /\ urls_file = NoFile
    /\ club_limit = None
    /\ results = <<>>
    /\ club_output_file = NoFile
    /\ club_idx = 1
    /\ club_attempted = {}
    /\ club_instances = 1
    /\ club_calls = <<>>
    /\ club_faults = 0

\* main of soFIFAClubs_scraper.py: SoFIFAClubScraper(), then load_urls() and
\* scrape_all_clubs(limit); club_urls.csv is missing or is the file discovery
\* wrote; club_stats.csv is missing at the first start.
InitClubStats ==
    /\ prog = "club_stats"
    /\ pc = "club_load"
    /\ club_urls = <<>>
    /\ urls_file \in
          {NoFile, [exists |-> TRUE,
                    rows |-> << <<"club_url">> >>
                             \o [i \in 1..NumUrls |-> <<ClubUrlNames[i]>>]]}
    /\ club_limit \in Limits
    /\ results = <<>>
    /\ club_output_file = NoFile
    /\ club_idx = 1
    /\ club_attempted = {}
    /\ club_instances = 1
    /\ club_calls = <<>>
    /\ club_faults = 0

\* main: scraper.load_urls().  open() raises FileNotFoundError when the file
\* is missing and nothing catches it: the program ends there.
ClubLoad ==
    /\ prog = "club_stats" /\ pc = "club_load"
    /\ IF urls_file.exists
       THEN /\ club_urls' = LoadedUrls(urls_file)
            /\ pc' = "club_for"
       ELSE /\ pc' = "club_aborted"
            /\ UNCHANGED club_urls
    /\ UNCHANGED << orderVars, prog, urls_file, club_limit, results, club_output_file,
                     club_idx, club_attempted, club_instances, club_calls,
                     club_faults, playerVars, purlVars, curlVars >>

\* One pass through the body of `for idx, url in enumerate(to_scrape, 1)`:
\* scrape_club_data raises (a navigation timeout, a failed evaluate), or
\* returns the dict of the page it got.
ClubAttempt(out) ==
    LET saved == save_to_csv(out.data)
    IN  /\ prog = "club_stats" /\ pc = "club_for"
        /\ club_idx <= Len(to_scrape)
        /\ club_attempted' = club_attempted \cup {club_idx}
        /\ IF out.kind = "page"
           THEN /\ results' = Append(results, out.data)
                /\ club_output_file' = saved.file
                /\ club_calls' = Append(club_calls,
                        [data |-> out.data, raised |-> saved.raised,
                         instance |-> club_instances])
           ELSE UNCHANGED << results, club_output_file, club_calls >>
        /\ club_idx' = club_idx + 1
        /\ club_faults' = club_faults + out.faults
        /\ UNCHANGED << orderVars, prog, pc, club_urls, urls_file, club_limit, club_instances, playerVars, purlVars, curlVars >>

ClubOutcomes(url) ==
    {[kind |-> "page", faults |-> 0, data |-> ClubRecord(url, TRUE)]}
    \cup (IF club_faults < MaxFaults
          THEN {[kind |-> "error", faults |-> 1],
                [kind |-> "page", faults |-> 1, data |-> ClubRecord(url, FALSE)]}
          ELSE {})

ClubFetch ==
    /\ prog = "club_stats" /\ pc = "club_for"
    /\ club_idx <= Len(to_scrape)
    /\ \E out \in ClubOutcomes(to_scrape[club_idx]) : ClubAttempt(out)

\* the list is exhausted: browser.close()
ClubForEnd ==
    /\ prog = "club_stats" /\ pc = "club_for"
    /\ club_idx > Len(to_scrape)
    /\ pc' = "club_done"
    /\ UNCHANGED << orderVars, prog, playerVars, clubVars, purlVars, curlVars >>

\* The program is started again after a finished run: a new
\* SoFIFAClubScraper on the same club_stats.csv, load_urls(), scrape_all_clubs().
ClubRestart ==
    /\ prog = "club_stats" /\ pc = "club_done"
    /\ club_instances < MaxInstances
    /\ club_instances' = club_instances + 1
    /\ results' = <<>>
    /\ club_idx' = 1
    /\ club_attempted' = {}
    /\ club_urls' = <<>>
    /\ pc' = "club_load"
    /\ UNCHANGED << orderVars, prog, urls_file, club_limit, club_output_file, club_calls,
                     club_faults, playerVars, purlVars, curlVars >>

\* ------------------------------------------------ PlayerURLScraper
UniqueLoop_NoSeen(urls, seen, unique_urls) == unique_urls \o urls

\* "Remove duplicates while preserving order": the loop over the list with
\* the set seen.
RECURSIVE UniqueLoop(_, _, _)
UniqueLoop(urls, seen, unique_urls) ==
    IF urls = <<>> THEN unique_urls
    ELSE IF Head(urls) \notin seen
         THEN UniqueLoop(Tail(urls), seen \cup {Head(urls)}, Append(unique_urls, Head(urls)))
         ELSE UniqueLoop(Tail(urls), seen, unique_urls)

RowsOf(urls) == [i \in 1..Len(urls) |-> <<urls[i]>>]

save_urls_to_csv_Raw(urls) ==
    [exists |-> TRUE, rows |-> << <<"player_url">> >> \o RowsOf(urls)]

\* PlayerURLScraper.save_urls_to_csv: the file it writes (mode 'w').
save_urls_to_csv(urls) ==
    [exists |-> TRUE, rows |-> << <<"player_url">> >> \o RowsOf(UniqueLoop(urls, {}, <<>>))]

\* What the page script returns on a listing page: the player links of the
\* page, each once, and whether a Next button exists.
PurlListings ==
    { <<>>, <<"p1", "p2">>, <<"p2", "p3">>, <<"p3", "p1">> }

PageIndex(off) == off \div page_size + 1

PurlOutcomes(off) ==
    (IF purl_fails < MaxFailures THEN {[kind |-> "error"], [kind |-> "challenge"]} ELSE {})
    \cup {[kind |-> "page", urls |-> l, hasNext |-> h] :
             l \in PurlListings,
             h \in (IF PageIndex(off) < MaxPages THEN BOOLEAN ELSE {FALSE})}

InitPurlIdle ==
    /\ offset = 0
    /\ all_player_urls = <<>>
    /\ has_next = TRUE
    /\ purl_retries = 0
    /\ purl_success = FALSE
    /\ purl_file = NoFile
    /\ purl_fetches = 0
    /\ purl_last = None
    /\ purl_fails = 0
    /\ processed = <<>>
    /\ saves = 0

\* main of scrape_player_urls.py: PlayerURLScraper(), scrape_all_player_urls()
InitPlayerUrls ==
    /\ prog = "player_urls"
    /\ pc = "purl_outer"
    /\ InitPurlIdle

\* `while has_next:` is entered: url is built from offset, retries = 0,
\* success = False
PurlOuterEnter ==
    /\ prog = "player_urls" /\ pc = "purl_outer"
    /\ has_next
    /\ purl_retries' = 0
    /\ purl_success' = FALSE
    /\ pc' = "purl_inner"
    /\ UNCHANGED << orderVars, prog, offset, all_player_urls, has_next, purl_file,
                     purl_fetches, purl_last, purl_fails, processed, saves,
                     playerVars, clubVars, curlVars >>

\* `while has_next:` ends: browser.close(), return self.all_player_urls
PurlOuterEnd ==
    /\ prog = "player_urls" /\ pc = "purl_outer"
    /\ ~has_next
    /\ pc' = "purl_returned"
    /\ UNCHANGED << orderVars, prog, purlVars, playerVars, clubVars, curlVars >>

\* while retries < max_retries and not success
PurlWhileCond == purl_retries < purl_max_retries /\ ~purl_success

NextOffset_Always(off, hasNext) == off + page_size

NextOffset_NoPageSize(off, hasNext) == IF hasNext THEN off + 1 ELSE off

\* if has_next: self.offset += self.page_size
NextOffset(off, hasNext) == IF hasNext THEN off + page_size ELSE off

\* One pass through the body of `while retries < max_retries and not success`
PurlAttempt(out) ==
    /\ prog = "player_urls" /\ pc = "purl_inner"
    /\ PurlWhileCond
    /\ purl_fetches' = IF purl_last = Some(offset) THEN purl_fetches + 1 ELSE 1
    /\ purl_last' = Some(offset)
    /\ CASE out.kind = "challenge" ->
              /\ purl_retries' = purl_retries + 1
              /\ purl_fails' = purl_fails + 1
              /\ UNCHANGED << offset, all_player_urls, has_next, purl_success,
                               purl_file, processed, saves >>
         [] out.kind = "error" ->
              /\ purl_retries' = purl_retries + 1
              /\ purl_fails' = purl_fails + 1
              /\ has_next' = IF purl_retries + 1 >= purl_max_retries THEN FALSE ELSE has_next
              /\ UNCHANGED << offset, all_player_urls, purl_success, purl_file,
                               processed, saves >>
         [] out.kind = "page" ->
              /\ has_next' = out.hasNext
              /\ all_player_urls' = all_player_urls \o out.urls
              /\ purl_file' = save_urls_to_csv(all_player_urls \o out.urls)
              /\ saves' = saves + 1
              /\ purl_success' = TRUE
              /\ processed' = Append(processed, [offset |-> offset, hasNext |-> out.hasNext])
              /\ offset' = NextOffset(offset, out.hasNext)
              /\ purl_fails' = IF out.hasNext THEN 0 ELSE purl_fails
              /\ UNCHANGED purl_retries
    /\ UNCHANGED << orderVars, prog, pc, playerVars, clubVars, curlVars >>

PurlFetch ==
    /\ prog = "player_urls" /\ pc = "purl_inner"
    /\ \E out \in PurlOutcomes(offset) : PurlAttempt(out)

\* the inner while condition is false: back to `while has_next:`
PurlInnerExit ==
    /\ prog = "player_urls" /\ pc = "purl_inner"
    /\ ~PurlWhileCond
    /\ pc' = "purl_outer"
    /\ UNCHANGED << orderVars, prog, purlVars, playerVars, clubVars, curlVars >>

\* What scrape_all_player_urls gives its caller after the loop: it returns
\* the collected list; nothing in it raises once the loop has ended.
DiscoveryOutcome(collected) == [raised |-> FALSE, value |-> collected]

\* main: the final scraper.save_urls_to_csv() after the scrape returned
PurlFinalSave ==
    /\ prog = "player_urls" /\ pc = "purl_returned"
    /\ purl_file' = save_urls_to_csv(all_player_urls)
    /\ saves' = saves + 1
    /\ pc' = "purl_done"
    /\ UNCHANGED << orderVars, prog, offset, all_player_urls, has_next, purl_retries,
                     purl_success, purl_fetches, purl_last, purl_fails, processed,
                     playerVars, clubVars, curlVars >>

\* ------------------------------------------------ ClubURLScraper
\* What the page script returns on the listing page at off: the team links
\* of the table, each once; neighbouring pages overlap in one club.
ClubListing(off) ==
    << ClubUrlNames[PageIndex(off)], ClubUrlNames[PageIndex(off) + 1] >>

\* list(dict.fromkeys(urls)): the keys of an insertion-ordered dict; a key
\* that is set again keeps its first position.
RECURSIVE dict_fromkeys(_)
dict_fromkeys(urls) ==
    IF urls = <<>> THEN <<>>
    ELSE LET d == dict_fromkeys(SubSeq(urls, 1, Len(urls) - 1))
             k == urls[Len(urls)]
         IN  IF k \in Range(d) THEN d ELSE Append(d, k)

save_club_urls_to_csv_LastPage(urls) ==
    LET last == IF Len(urls) <= 2 THEN urls ELSE SubSeq(urls, Len(urls) - 1, Len(urls))
    IN  [exists |-> TRUE, rows |-> << <<"club_url">> >> \o RowsOf(dict_fromkeys(last))]

\* ClubURLScraper.save_urls_to_csv: the file it writes (mode 'w').
save_club_urls_to_csv(urls) ==
    [exists |-> TRUE, rows |-> << <<"club_url">> >> \o RowsOf(dict_fromkeys(urls))]

\* The `for attempt in range(2)` navigation of one listing page: gotos and
\* sleeps made, timeouts met, and the document the page shows afterwards.
\* When both attempts time out the `continue` ends the for loop only, and
\* the page shows what it showed before, nothing, or the late listing.
NavOutcomes(off) ==
    {[gotos |-> 1, sleeps |-> 0, timeouts |-> 0, shown |-> ClubListing(off)]}
    \cup (IF timeouts + 1 <= MaxTimeouts
          THEN {[gotos |-> 2, sleeps |-> 1, timeouts |-> 1, shown |-> ClubListing(off)]}
          ELSE {})
    \cup (IF timeouts + 2 <= MaxTimeouts
          THEN {[gotos |-> 2, sleeps |-> 1, timeouts |-> 2, shown |-> d] :
                   d \in {loaded, <<>>, ClubListing(off)}}
          ELSE {})

InitCurlIdle ==
    /\ club_offset = 0
    /\ all_club_urls = <<>>
    /\ club_urls_file = NoFile
    /\ loaded = <<>>
    /\ timeouts = 0
    /\ handled = <<>>
    /\ last_gotos = 0
    /\ last_sleeps = 0

\* main of soFIFAClubs_url_scraper.py: ClubURLScraper(), scrape_all_club_urls()
InitClubUrls ==
    /\ prog = "club_urls"
    /\ pc = "curl_loop"
    /\ InitCurlIdle

\* One pass through the body of `while self.offset <= self.max_offset`;
\* evaluated tells whether page.evaluate returned (it is outside any try).
ClubUrlPage(nav, evaluated) ==
    /\ prog = "club_urls" /\ pc = "curl_loop"
    /\ club_offset <= max_offset
    /\ timeouts' = timeouts + nav.timeouts
    /\ last_gotos' = nav.gotos
    /\ last_sleeps' = nav.sleeps
    /\ loaded' = nav.shown
    /\ handled' = Append(handled, [offset |-> club_offset, timeouts |-> nav.timeouts,
                                   evaluated |-> evaluated])
    /\ IF evaluated
       THEN /\ all_club_urls' = all_club_urls \o nav.shown
            /\ club_urls_file' = save_club_urls_to_csv(all_club_urls \o nav.shown)
            /\ club_offset' = club_offset + page_size
            /\ UNCHANGED pc
       ELSE /\ pc' = "curl_raised"
            /\ UNCHANGED << all_club_urls, club_urls_file, club_offset >>
    /\ UNCHANGED << orderVars, prog, playerVars, clubVars, purlVars >>

ClubUrlStep ==
    /\ prog = "club_urls" /\ pc = "curl_loop"
    /\ club_offset <= max_offset
    /\ \E nav \in NavOutcomes(club_offset), evaluated \in BOOLEAN :
          ClubUrlPage(nav, evaluated)

ClubUrlEnd_Early ==
    /\ prog = "club_urls" /\ pc = "curl_loop"
    /\ club_offset >= max_offset
    /\ pc' = "curl_done"
    /\ UNCHANGED << orderVars, prog, playerVars, clubVars, purlVars, curlVars >>

\* the while condition is false: browser.close(), return self.all_club_urls
ClubUrlEnd ==
    /\ prog = "club_urls" /\ pc = "curl_loop"
    /\ club_offset > max_offset
    /\ pc' = "curl_done"
    /\ UNCHANGED << orderVars, prog, playerVars, clubVars, purlVars, curlVars >>

\* ------------------------------------------------ _get_column_order
\* Keys a record can have beyond those every page yields: three priority
\* keys and the non-priority keys.
OrderExtraKeys ==
    {"club_name", "country_position", "play_styles"} \cup Range(OtherKeysSorted)

OrderKeySets == {BaseKeys \cup extra : extra \in SUBSET OrderExtraKeys}

InitOrderIdle ==
    /\ stats_dict = [url |-> ""]
    /\ column_order = None

\* Scenario: one direct call of _get_column_order on a record.
InitColumnOrder ==
    /\ prog = "column_order"
    /\ pc = "order_call"
    /\ stats_dict \in {PlayerRecord("p1", ks, TRUE) : ks \in OrderKeySets}
    /\ column_order = None

ColumnOrderCall ==
    /\ prog = "column_order" /\ pc = "order_call"
    /\ column_order' = Some(get_column_order(stats_dict))
    /\ pc' = "order_done"
    /\ UNCHANGED << prog, stats_dict, playerVars, clubVars, purlVars, curlVars >>

Init ==
    \/ InitPlayerStats /\ InitClubIdle /\ InitPurlIdle /\ InitCurlIdle /\ InitOrderIdle
    \/ InitPlayerSink /\ InitClubIdle /\ InitPurlIdle /\ InitCurlIdle /\ InitOrderIdle
    \/ InitClubStats /\ InitPlayerIdle /\ InitPurlIdle /\ InitCurlIdle /\ InitOrderIdle
    \/ InitPlayerUrls /\ InitPlayerIdle /\ InitClubIdle /\ InitCurlIdle /\ InitOrderIdle
    \/ InitClubUrls /\ InitPlayerIdle /\ InitClubIdle /\ InitPurlIdle /\ InitOrderIdle
    \/ InitColumnOrder /\ InitPlayerIdle /\ InitClubIdle /\ InitPurlIdle /\ InitCurlIdle

Next ==
    \/ PlayerLoad
    \/ PlayerForNext
    \/ PlayerForEnd
    \/ PlayerFetch
    \/ PlayerWhileExit
    \/ SinkWrite
    \/ SinkRestart
    \/ ClubLoad
    \/ ClubFetch
    \/ ClubForEnd
    \/ ClubRestart
    \/ PurlOuterEnter
    \/ PurlOuterEnd
    \/ PurlFetch
    \/ PurlInnerExit
    \/ PurlFinalSave
    \/ ClubUrlStep
    \/ ClubUrlEnd
    \/ ColumnOrderCall

Spec == Init /\ [][Next]_vars

\* The event loop runs the one coroutine of the program to its end: a step
\* that can be taken is taken.
FairSpec == Spec /\ WF_vars(Next)

\* ===================================================== properties
\* The row a record gives under a header: the record's value in each column
\* it has, '' in the others.
Cell(rec, col) == IF col \in DOMAIN rec THEN rec[col] ELSE ""

IsRowOf(row, header, rec) ==
    /\ Len(row) = Len(header)
    /\ \A i \in 1..Len(header) : row[i] = Cell(rec, header[i])

\* rows is one header row followed by one row per record of recs, in order.
IsHeaderThenRows(rows, header, recs) ==
    /\ Len(rows) = Len(recs) + 1
    /\ rows[1] = header
    /\ \A i \in 1..Len(recs) :
          /\ IsRowOf(rows[i + 1], header, recs[i])
          /\ rows[i + 1] # header

\* C1: one SoFIFAScraper writes records A, B, C to a fresh file, a new
\* SoFIFAScraper writes D to the same file: the file holds one header row
\* followed by the rows of A, B, C, D.
C1_PlayerSinkRestart ==
    ( /\ prog = "player_sink"
      /\ Len(calls) = 4
      /\ \A i \in 1..3 : calls[i].instance = 1
      /\ calls[4].instance = 2
      /\ \A i \in 1..4 : DOMAIN calls[i].stats = DOMAIN calls[1].stats )
    => IsHeaderThenRows(output_file.rows, get_column_order(calls[1].stats),
                        [i \in 1..4 |-> calls[i].stats])

\* C2: after the first record fixed the columns, a call with a record that
\* has a key outside the columns and lacks one of them succeeds, appends one
\* row (unknown key dropped, missing column empty) and leaves the columns.
C2_SchemaLockProjects ==
    ( /\ prog = "player_sink"
      /\ Len(calls) = 2
      /\ instances = 1
      /\ DOMAIN calls[2].stats \ DOMAIN calls[1].stats # {}
      /\ DOMAIN calls[1].stats \ DOMAIN calls[2].stats # {} )
    => /\ ~calls[2].raised
       /\ columns = Some(get_column_order(calls[1].stats))
       /\ IsHeaderThenRows(output_file.rows, get_column_order(calls[1].stats),
                           [i \in 1..2 |-> calls[i].stats])

\* C3: whatever the save_to_csv calls and however they are spread over
\* scraper instances, club_stats.csv, missing at first, holds the header of
\* the 22 fixed columns once, then one row per call, in call order.
C3_ClubSinkOneHeader ==
    prog = "club_stats" =>
        IF club_calls = <<>>
        THEN ~club_output_file.exists
        ELSE /\ club_output_file.exists
             /\ Len(fieldnames) = 22
             /\ IsHeaderThenRows(club_output_file.rows, fieldnames,
                                 [i \in 1..Len(club_calls) |-> club_calls[i].data])

C3_Witness ==
    /\ prog = "club_stats"
    /\ club_instances = 2
    /\ Len(club_calls) >= 3
    /\ club_calls[1].instance = 1
    /\ club_calls[Len(club_calls)].instance = 2

\* C4: in a run of scrape_player_stats, once an address has succeeded, the
\* output file is the header followed by one complete row for each address
\* that has succeeded so far in this run, and nothing else.
C4_RowPerSuccess ==
    (prog = "player_stats" /\ succeeded # <<>>) =>
        /\ output_file.exists
        /\ columns # None
        /\ IsHeaderThenRows(output_file.rows, columns[1],
                            [i \in 1..Len(succeeded) |-> succeeded[i].stats])

C4_Witness ==
    /\ prog = "player_stats"
    /\ pc = "done"
    /\ Len(succeeded) = 2
    /\ failed # {}
    /\ \E i \in 1..Len(calls) : calls[i].raised
    /\ Len(output_file.rows) = 3

\* The rows of a file that hold the address url in some cell.
RowsFor(file, url) == {i \in 1..Len(file.rows) : url \in Range(file.rows[i])}

\* C5: an address whose fetch raises a navigation error k times (k <= 4) and
\* then yields a page with usable data is fetched k+1 times with k backoff
\* sleeps, gets exactly one row, and the loop moves on to the next address.
C5_RetryThenSuccess ==
    [][ ( /\ prog = "player_stats" /\ pc = "while"
          /\ hist["challenge"] = 0 /\ hist["no_data"] = 0 /\ hist["usable"] = 0
          /\ hist["error"] <= 4
          /\ hist'["usable"] = 1 )
        => ( /\ fetches' = hist["error"] + 1
             /\ sleeps' = hist["error"]
             /\ Cardinality(RowsFor(output_file', urls_to_scrape[idx])) = 1
             /\ success'
             /\ ~WhileCond' ) ]_vars

\* Every fetch of the current address so far returned a challenge page.
AllChallenge ==
    /\ hist["challenge"] >= 1
    /\ hist["error"] = 0 /\ hist["no_data"] = 0 /\ hist["usable"] = 0

\* C6: an address whose every fetch returns a challenge page is fetched
\* exactly max_retries = 5 times, gets no row, is marked failed, and the loop
\* goes on to the next address.
C6_PersistentChallenge ==
    (prog = "player_stats" /\ AllChallenge) =>
        /\ player_max_retries = 5
        /\ fetches = hist["challenge"]
        /\ fetches <= player_max_retries
        /\ ~success
        /\ pc = "while" =>
              /\ WhileCond <=> fetches < player_max_retries
              /\ RowsFor(output_file, urls_to_scrape[idx]) = {}
        /\ pc # "while" =>
              /\ fetches = player_max_retries
              /\ sleeps = player_max_retries - 1
              /\ idx - 1 \in failed
              /\ RowsFor(output_file, urls_to_scrape[idx - 1]) = {}

C6_Witness ==
    /\ prog = "player_stats" /\ AllChallenge
    /\ pc = "while" /\ idx = 2 /\ 1 \in failed
    /\ fetches = 5
    /\ Len(succeeded) = 0

\* C7: every listing address is fetched at most max_retries = 3 times; after
\* three failed fetches of a listing address (challenge pages included) the
\* address is a terminal failure and the discovery loop ends.
C7_BoundedListingRetries ==
    prog = "player_urls" =>
        /\ purl_max_retries = 3
        /\ purl_fetches <= purl_max_retries
        /\ (pc = "purl_outer" /\ purl_fetches = purl_max_retries /\ ~purl_success)
              => ~has_next

\* C8: in scrape_player_stats and in scrape_all_clubs the loop reaches the
\* end of the list with every address attempted at least once, whatever the
\* outcomes of the attempts.
C8_DetailPhaseReachesEnd ==
    /\ prog = "player_stats" /\ player_urls_file.exists =>
          <>(pc = "done" /\ attempted = 1..Len(urls_to_scrape))
    /\ prog = "club_stats" /\ urls_file.exists =>
          <>(pc = "club_done" /\ club_attempted = 1..Len(to_scrape))

C8_Witness ==
    /\ prog = "player_stats" /\ pc = "done"
    /\ attempted = 1..3
    /\ failed = {2}
    /\ \E i \in 1..Len(calls) : calls[i].raised
    /\ Len(succeeded) = 2

\* The offsets of the pages processed so far are 0, page_size, 2*page_size,
\* ... and only the last of them can have reported hasNext = false.
ProcessedInOrder ==
    /\ \A i \in 1..Len(processed) : processed[i].offset = (i - 1) * page_size
    /\ \A i \in 1..Len(processed) - 1 : processed[i].hasNext
    /\ page_size = 60

\* C9: scrape_all_player_urls terminates, the successfully processed pages
\* have the offsets 0, 60, 120, ... (none skipped, none repeated), and when
\* it ends without giving up on a page the last one reported hasNext = false.
C9_PaginationTerminates ==
    /\ [](prog = "player_urls" => ProcessedInOrder)
    /\ [](prog = "player_urls" /\ pc = "purl_returned" /\ purl_success =>
             ~processed[Len(processed)].hasNext)
    /\ prog = "player_urls" => <>(pc = "purl_done")

C9_Witness ==
    /\ prog = "player_urls" /\ pc = "purl_done"
    /\ Len(processed) = 3
    /\ ~processed[3].hasNext
    /\ purl_fails > 0

FirstIndex(list, x) == CHOOSE i \in 1..Len(list) : list[i] = x /\ \A j \in 1..(i - 1) : list[j] # x

\* file is the header row followed by each distinct address of list exactly
\* once, in order of first occurrence in list.
IsDedupOf(file, header, list) ==
    /\ file.exists
    /\ Len(file.rows) >= 1
    /\ file.rows[1] = <<header>>
    /\ \A i \in 2..Len(file.rows) :
          Len(file.rows[i]) = 1 /\ file.rows[i][1] \in Range(list)
    /\ \A u \in Range(list) :
          Cardinality({i \in 2..Len(file.rows) : file.rows[i] = <<u>>}) = 1
    /\ \A i, j \in 2..Len(file.rows) :
          i < j => FirstIndex(list, file.rows[i][1]) < FirstIndex(list, file.rows[j][1])

\* C10: after every save_urls_to_csv (player and club) the discovery file is
\* the header followed by each distinct collected address once, in order of
\* first occurrence.
C10_DiscoveryFileDeduplicated ==
    /\ (prog = "player_urls" /\ saves > 0) =>
          IsDedupOf(purl_file, "player_url", all_player_urls)
    /\ (prog = "club_urls" /\ \E i \in 1..Len(handled) : handled[i].evaluated) =>
          IsDedupOf(club_urls_file, "club_url", all_club_urls)

C10_Witness ==
    /\ prog = "player_urls"
    /\ saves >= 2
    /\ Len(all_player_urls) > Cardinality(Range(all_player_urls))
    /\ Len(purl_file.rows) = 4

\* C11: when the first listing page yields [p1, p2] with a Next button and
\* the second yields [p2, p3] without one, discovery has fetched those two
\* listing addresses (offsets 0 and page_size) and no other, fetches no
\* more, and player_urls.csv lists p1, p2, p3 in that order, each once.
C11_EndToEndDiscovery ==
    ( /\ prog = "player_urls"
      /\ Len(processed) >= 2
      /\ processed[1] = [offset |-> 0, hasNext |-> TRUE]
      /\ processed[2] = [offset |-> page_size, hasNext |-> FALSE]
      /\ all_player_urls = <<"p1", "p2", "p2", "p3">> )
    => /\ Len(processed) = 2
       /\ purl_last = Some(page_size)
       /\ offset = page_size
       /\ ~has_next
       /\ ~(ENABLED PurlFetch)
       /\ purl_file = [exists |-> TRUE,
                       rows |-> << <<"player_url">>, <<"p1">>, <<"p2">>, <<"p3">> >>]

C11_Witness ==
    /\ prog = "player_urls" /\ pc = "purl_done"
    /\ processed = << [offset |-> 0, hasNext |-> TRUE],
                      [offset |-> page_size, hasNext |-> FALSE] >>
    /\ all_player_urls = <<"p1", "p2", "p2", "p3">>
    /\ saves = 3

\* The addresses a discovery file lists, in file order (the rows after the
\* header).
FileUrls(file) == [i \in 1..(Len(file.rows) - 1) |-> file.rows[i + 1][1]]

IsPrefix(a, b) == Len(a) <= Len(b) /\ SubSeq(b, 1, Len(a)) = a

\* C12: in both discovery loops, once a listing page has been processed the
\* discovery file exists and lists every address collected from the pages
\* processed so far, and every rewrite of the file extends the previous
\* content (old rows stay, in the same order, new rows come after them).
C12_DiscoveryNeverLost ==
    /\ [](prog = "player_urls" /\ processed # <<>>
            => /\ purl_file.exists
               /\ Range(all_player_urls) \subseteq Range(FileUrls(purl_file)))
    /\ [](prog = "club_urls" /\ (\E i \in 1..Len(handled) : handled[i].evaluated)
            => /\ club_urls_file.exists
               /\ Range(all_club_urls) \subseteq Range(FileUrls(club_urls_file)))
    /\ [][ /\ purl_file.exists => IsPrefix(purl_file.rows, purl_file'.rows)
           /\ club_urls_file.exists => IsPrefix(club_urls_file.rows, club_urls_file'.rows)
         ]_vars

C12_Witness ==
    /\ prog = "club_urls"
    /\ Len(handled) >= 3
    /\ \A i \in 1..3 : handled[i].evaluated
    /\ Len(all_club_urls) = 6
    /\ Len(club_urls_file.rows) = 5


\* C13: in scrape_all_club_urls no failure on a listing page leaves the
\* pagination loop: the run never ends by a raised exception, and when it
\* has ended every offset 0, 60, ..., 660 has been visited.
C13_ClubUrlFailureContained ==
    prog = "club_urls" =>
        /\ pc # "curl_raised"
        /\ pc = "curl_done" =>
              {handled[i].offset : i \in 1..Len(handled)}
                 = {k * page_size : k \in 0..(max_offset \div page_size)}

\* C14: when the first listing page fails on all of its attempts, what
\* scrape_all_player_urls gives its caller differs from what a discovery
\* gives that completed and found no addresses (the list [] returned
\* normally).
C14_NoProgressReported ==
    ( /\ prog = "player_urls"
      /\ pc \in {"purl_returned", "purl_done"}
      /\ processed = <<>> )
    => DiscoveryOutcome(all_player_urls) # DiscoveryOutcome(<<>>)


\* C15: when the address input file is missing, the run ends in the loader:
\* the program is in or before load_player_urls / load_urls or has ended
\* there with the error, no detail page is ever fetched, and no step creates
\* or changes the detail output file.
C15_MissingInputAborts ==
    /\ [](prog = "player_stats" /\ ~player_urls_file.exists
            => pc \in {"load", "aborted"} /\ fetches = 0 /\ attempted = {})
    /\ [](prog = "club_stats" /\ ~urls_file.exists
            => pc \in {"club_load", "club_aborted"} /\ club_attempted = {})
    /\ [][ /\ prog = "player_stats" /\ ~player_urls_file.exists
                 => output_file' = output_file
           /\ prog = "club_stats" /\ ~urls_file.exists
                 => club_output_file' = club_output_file ]_vars

C15_Witness ==
    /\ prog = "player_stats" /\ pc = "aborted"
    /\ ~player_urls_file.exists
    /\ output_file = LeftoverFile


\* C16: for one address, an attempt that ends in a navigation error or a
\* challenge page leaves the number of no-data attempts still allowed as it
\* was, and an attempt that ends in no data leaves the number of transient
\* retries still allowed as it was.
C16_SeparateNoDataBudget ==
    [][ (prog = "player_stats" /\ pc = "while" /\ pc' = "while") =>
          /\ (hist'["error"] + hist'["challenge"] > hist["error"] + hist["challenge"])
                => AttemptsAllowed' = AttemptsAllowed
          /\ (hist'["no_data"] > hist["no_data"])
                => AttemptsAllowed' = AttemptsAllowed ]_vars


\* C17: an attempt on an address that does not end in success (navigation
\* error, challenge page, no data, failed write) leaves player_stats,
\* columns, csv_initialized and the output file exactly as they were.
C17_FailedAttemptLeavesNoTrace ==
    [][ ( /\ prog = "player_stats" /\ pc = "while"
          /\ fetches' = fetches + 1
          /\ ~success' )
        => /\ player_stats' = player_stats
           /\ columns' = columns
           /\ csv_initialized' = csv_initialized
           /\ output_file' = output_file ]_vars

\* C18: in scrape_all_clubs an address whose fetch fails with a navigation
\* timeout is not left at once: the loop stays on the address for another
\* fetch.
C18_ClubDetailRetries ==
    [][ ( /\ prog = "club_stats" /\ pc = "club_for"
          /\ club_attempted' # club_attempted
          /\ club_faults' = club_faults + 1
          /\ club_calls' = club_calls )
        => club_idx' = club_idx ]_vars


\* The code points of the characters of the non-priority key names.
CodePoints ==
       ("defending_marking" :>
           << 100, 101, 102, 101, 110, 100, 105, 110, 103, 95, 109, 97,
              114, 107, 105, 110, 103 >>) @@
       ("defending_marking_awareness" :>
           << 100, 101, 102, 101, 110, 100, 105, 110, 103, 95, 109, 97,
              114, 107, 105, 110, 103, 95, 97, 119, 97, 114, 101, 110,
              101, 115, 115 >>) @@
       ("goalkeeping_gk_speed" :>
           << 103, 111, 97, 108, 107, 101, 101, 112, 105, 110, 103, 95,
              103, 107, 95, 115, 112, 101, 101, 100 >>) @@
       ("mentality_positioning" :>
           << 109, 101, 110, 116, 97, 108, 105, 116, 121, 95, 112, 111,
              115, 105, 116, 105, 111, 110, 105, 110, 103 >>)

\* Python's order of two strings: at the first position where they differ
\* the smaller code point decides; a proper prefix comes first.
LexLess(a, b) ==
    LET x == CodePoints[a]
        y == CodePoints[b]
        Common == {i \in 1..Len(x) : i <= Len(y) /\ SubSeq(x, 1, i) = SubSeq(y, 1, i)}
        n == Cardinality(Common)
    IN  IF n = Len(x) THEN n < Len(y)
        ELSE n < Len(y) /\ x[n + 1] < y[n + 1]

\* The position of col in priority_cols.
PriorityIndex(col) == CHOOSE i \in 1..Len(priority_cols) : priority_cols[i] = col

\* C19: _get_column_order returns every key of the record exactly once and
\* no other name; the keys of the priority list come first, in the order of
\* that list, and all remaining keys follow in ascending lexicographic
\* order.
C19_ColumnOrderRule ==
    (prog = "column_order" /\ column_order # None) =>
        LET cols == column_order[1]
            keys == DOMAIN stats_dict
            IsPriority(col) == col \in Range(priority_cols)
            n == Cardinality({col \in keys : IsPriority(col)})
        IN  /\ Range(cols) = keys
            /\ Len(cols) = Cardinality(keys)
            /\ \A i \in 1..n : IsPriority(cols[i])
            /\ \A i \in (n + 1)..Len(cols) : ~IsPriority(cols[i])
            /\ \A i \in 1..(n - 1) : PriorityIndex(cols[i]) < PriorityIndex(cols[i + 1])
            /\ \A i \in (n + 1)..(Len(cols) - 1) : LexLess(cols[i], cols[i + 1])

C19_Witness ==
    /\ prog = "column_order" /\ pc = "order_done"
    /\ {"club_name", "play_styles", "defending_marking",
        "defending_marking_awareness", "mentality_positioning"}
           \subseteq DOMAIN stats_dict
    /\ column_order # None


\* Indexes of the addresses that ended in success.
SucceededIdx == {succeeded[i].idx : i \in 1..Len(succeeded)}

\* C20: in the player detail phase every address is fetched at least once
\* and at most 5 times and then ends in exactly one of succeeded or failed;
\* no fetch is made for an address that has already succeeded or failed;
\* and the phase reaches its end for every address list.
C20_PerAddressStateMachine ==
    /\ [](prog = "player_stats" =>
            /\ fetches <= 5
            /\ failed \cap SucceededIdx = {}
            /\ pc \in {"for", "done"} =>
                  /\ failed \cup SucceededIdx = 1..(idx - 1)
                  /\ idx > 1 => fetches >= 1
            /\ pc = "done" => idx = Len(urls_to_scrape) + 1)
    /\ [][ (prog = "player_stats" /\ fetches' = fetches + 1) =>
              /\ idx \notin failed \cup SucceededIdx
              /\ \A j \in SucceededIdx : urls_to_scrape[j] # urls_to_scrape[idx] ]_vars
    /\ (prog = "player_stats" /\ player_urls_file.exists => <>(pc = "done"))

C20_Witness ==
    /\ prog = "player_stats" /\ pc = "done"
    /\ Len(urls_to_scrape) = 3
    /\ failed = {1, 3}
    /\ SucceededIdx = {2}
    /\ fetches = 5


\* C21: in club URL discovery a listing page whose two navigation attempts
\* both failed is skipped: handling it adds no address to all_club_urls,
\* and the traversal goes on with the next offset.
C21_SkippedListingPage ==
    [][ ( /\ prog = "club_urls" /\ pc = "curl_loop"
          /\ Len(handled') = Len(handled) + 1
          /\ handled'[Len(handled')].timeouts = 2
          /\ pc' = "curl_loop" )
        => /\ all_club_urls' = all_club_urls
           /\ club_offset' = club_offset + page_size ]_vars

\* C22: in club URL discovery the offsets handled are 0, 60, 120, ... in
\* increasing order, each once and none above 660, every offset takes at
\* most 2 navigation attempts and at most one backoff, and unless a step
\* raises out of the loop the run ends after exactly the 12 offsets up to
\* 660.
C22_BoundedClubTraversal ==
    /\ [](prog = "club_urls" =>
            /\ \A i \in 1..Len(handled) : handled[i].offset = (i - 1) * page_size
            /\ \A i \in 1..Len(handled) : handled[i].offset <= 660
            /\ last_gotos <= 2 /\ last_sleeps <= 1
            /\ pc = "curl_done" => Len(handled) = 12 /\ club_offset = 660 + page_size)
    /\ (prog = "club_urls" => <>(pc = "curl_raised" \/ pc = "curl_done"))

C22_Witness ==
    /\ prog = "club_urls" /\ pc = "curl_done"
    /\ Len(handled) = 12
    /\ timeouts >= 2
    /\ last_gotos = 2 /\ last_sleeps = 1


\* C23: in player URL discovery an attempt on a listing page that fails
\* (navigation or extraction raises, or a challenge page comes back) leaves
\* the offset, all_player_urls and the discovery file unchanged; the offset
\* changes only by +60, and only in the step that processes a page which
\* reported hasNext = true.
C23_FailedAttemptKeepsCursor ==
    [][ prog = "player_urls" =>
          /\ (pc = "purl_inner" /\ purl_retries' = purl_retries + 1)
                => /\ offset' = offset
                   /\ all_player_urls' = all_player_urls
                   /\ purl_file' = purl_file
          /\ offset' # offset
                => /\ offset' = offset + 60
                   /\ processed' = Append(processed, [offset |-> offset, hasNext |-> TRUE]) ]_vars

C23_Witness ==
    /\ prog = "player_urls" /\ pc = "purl_inner"
    /\ offset = 60
    /\ purl_retries = 2
    /\ purl_fetches = 2
    /\ purl_file.exists
    /\ Len(all_player_urls) = 2


\* The address a data row belongs to: its cell in the url column.
UrlOfRow(header, row) == row[CHOOSE i \in 1..Len(header) : header[i] = "url"]

IndexIn(list, u) == CHOOSE i \in 1..Len(list) : list[i] = u

\* The rows are rows of addresses of the list, at strictly increasing list
\* positions: at most one row per address, in list order.
RowsInListOrder(header, rows, list) ==
    /\ \A i \in 1..Len(rows) : UrlOfRow(header, rows[i]) \in Range(list)
    /\ \A i \in 1..(Len(rows) - 1) :
          IndexIn(list, UrlOfRow(header, rows[i])) < IndexIn(list, UrlOfRow(header, rows[i + 1]))

\* The data rows the running SoFIFAClubScraper instance has written: the
\* rows after those of the calls of earlier instances.
ClubRunRows ==
    LET earlier == Cardinality({i \in 1..Len(club_calls) :
                                   club_calls[i].instance < club_instances})
    IN  SubSeq(club_output_file.rows, earlier + 2, Len(club_output_file.rows))

\* C24: within one run of scrape_player_stats or scrape_all_clubs over a
\* duplicate-free list, the data rows the run has written belong to
\* addresses of the list, at most one row per address, in the order of the
\* list.
C24_RowsInAddressOrder ==
    /\ (prog = "player_stats" /\ csv_initialized) =>
          RowsInListOrder(Head(output_file.rows), Tail(output_file.rows), urls_to_scrape)
    /\ (prog = "club_stats" /\ club_output_file.exists /\ pc # "club_load") =>
          RowsInListOrder(Head(club_output_file.rows), ClubRunRows, to_scrape)

C24_Witness ==
    /\ prog = "player_stats" /\ pc = "done"
    /\ SucceededIdx = {1, 3}
    /\ failed = {2}
    /\ Len(output_file.rows) = 3


\* C25: in both detail phases a data row is written only for an extraction
\* with a non-empty name: every record handed to the writer, and so every
\* record counted in player_stats / results, has a name.
C25_OnlyUsableRecorded ==
    /\ prog = "player_stats" =>
          /\ \A i \in 1..Len(calls) : calls[i].stats["name"] # ""
          /\ \A i \in 1..Len(succeeded) : succeeded[i].stats["name"] # ""
    /\ prog = "club_stats" =>
          /\ \A i \in 1..Len(club_calls) : club_calls[i].data["name"] # ""
          /\ \A i \in 1..Len(results) : results[i]["name"] # ""

\* C26: at the end of scrape_player_stats the number of records in
\* player_stats equals the number of data rows the run wrote and the number
\* of addresses that ended in success, and no address has more than one
\* record in player_stats.
C26_SuccessCountMatchesOutput ==
    (prog = "player_stats" /\ pc = "done") =>
        LET written == IF csv_initialized THEN Len(output_file.rows) - 1 ELSE 0
        IN  /\ Len(player_stats) = written
            /\ Len(player_stats) = Len(succeeded)
            /\ \A i, j \in 1..Len(player_stats) :
                  player_stats[i]["url"] = player_stats[j]["url"] => i = j

\* C27: with max_players = n or limit = n, n >= 0, the run attempts exactly
\* the first min(n, length of the list) addresses; with None it attempts
\* every address.
C27_AddressLimit ==
    /\ (prog = "player_stats" /\ pc = "done") =>
          attempted = 1..(IF max_players = None \/ max_players[1] > Len(player_urls)
                          THEN Len(player_urls) ELSE max_players[1])
    /\ (prog = "club_stats" /\ pc = "club_done") =>
          club_attempted = 1..(IF club_limit = None \/ club_limit[1] > Len(club_urls)
                               THEN Len(club_urls) ELSE club_limit[1])

====
